---- MODULE Spec2Model ----
(***************************************************************************)
(* Model of the Model resource handler, src/pages/api/models/index.ts.     *)
(*                                                                         *)
(* One behaviour is one request: it is received, dispatched by verb and    *)
(* runs through the awaits of its branch.  The database and the object     *)
(* storage are state; the collaborators the handler calls (session         *)
(* resolver, ORM client, authorization gate, multipart parser, storage     *)
(* client, upload processor) answer nondeterministically within the        *)
(* outcomes their interfaces allow.                                        *)
(*                                                                         *)
(* JavaScript values: a query parameter or an optional field is a          *)
(* sequence of strings, << >> for undefined/null, <<s>> for the string s   *)
(* and a longer sequence for a string array.  Result lists are modelled    *)
(* by the set of their elements, except `results`, which is a sequence.    *)
(***************************************************************************)
EXTENDS Integers, Sequences, FiniteSets, TLC

VARIABLES
    pc,        \* position of the handler in the request
    req,       \* the inbound request: method, query, session, multipart body
    res,       \* the response the handler has sent, if any
    calls,     \* collaborators invoked by this request, in invocation order
    branch,    \* the GET read branch that executed
    db,        \* prisma model table: the set of stored Model records
    s3,        \* object storage: ids of the models whose objects are stored
    user,      \* POST/DELETE: the resolved user, << >> when null
    auth,      \* what hasRight returned on this request
    parsed,    \* POST: result of getFormidableFileFromReq
    draft,     \* POST: the OptionalModel draft handed to every handlePOST
    tasks,     \* POST: one handlePOST promise per file
    settled,   \* POST: file indices in the order their promises settled
    target,    \* DELETE: the record fetched for the model id, << >> when null
    s3p,       \* DELETE: state of the un-awaited deleteS3Files promise
    dbp        \* DELETE: state of the awaited prisma model.delete promise

vars == << pc, req, res, calls, branch, db, s3, user, auth, parsed, draft,
           tasks, settled, target, s3p, dbp >>

(***************************************************************************)
(* Bounds of the model.                                                    *)
(***************************************************************************)
MaxFiles == 2

(***************************************************************************)
(* JavaScript value helpers.                                               *)
(***************************************************************************)
Undefined == << >>

\* !!v for a value that is undefined, a string or a string array
Truthy(v) == v /= Undefined /\ v /= <<"">>

RECURSIVE Join(_)
Join(v) ==
    IF v = << >> THEN ""
    ELSE IF Len(v) = 1 THEN v[1]
    ELSE v[1] \o "," \o Join(Tail(v))

\* v.toString(), and the coercion of `"..." + v`, for a string or string array
ToStr(v) == Join(v)

Lower == "abcdefghijklmnopqrstuvwxyz"
Upper == "ABCDEFGHIJKLMNOPQRSTUVWXYZ"

UpperChar(c) ==
    IF \E i \in 1..Len(Lower) : SubSeq(Lower, i, i) = c
    THEN LET i == CHOOSE k \in 1..Len(Lower) : SubSeq(Lower, k, k) = c
         IN  SubSeq(Upper, i, i)
    ELSE c

RECURSIVE ToUpperCase(_)
ToUpperCase(s) ==
    IF Len(s) = 0 THEN ""
    ELSE UpperChar(SubSeq(s, 1, 1)) \o ToUpperCase(SubSeq(s, 2, Len(s)))

\* prisma `contains`: f occurs in s as a substring
Contains(s, f) ==
    \/ Len(f) = 0
    \/ \E i \in 1..Len(s) : \E j \in i..Len(s) : SubSeq(s, i, j) = f

(***************************************************************************)
(* Collaborator data.                                                      *)
(***************************************************************************)
\* the ids new records can get; the seed records hold "1" and "2"
NewIds == { ToString(2 + i) : i \in 1..MaxFiles }

Categories == { "misc", "car" }

Users ==
    { [id |-> "u1", email |-> "dev@x", role |-> "DEVELOPER"],
      [id |-> "u2", email |-> "usr@x", role |-> "USER"] }

SeedModels ==
    { [id |-> "1", name |-> "ab", category |-> "MISC", userId |-> "u1",
       modelFile |-> "m.glb", thumbnail |-> <<"t.png">>, modelUsdz |-> << >>],
      [id |-> "2", name |-> "b", category |-> "CAR", userId |-> "u2",
       modelFile |-> "c.glb", thumbnail |-> << >>, modelUsdz |-> <<"c.usdz">>] }

\* prisma user.findUnique({where: {email}}): the record, or null
UserByEmail(email) ==
    IF email /= Undefined /\ \E u \in Users : u.email = email[1]
    THEN << CHOOSE u \in Users : u.email = email[1] >>
    ELSE << >>

\* prisma model.findUnique({where: {id}}): the record, or null
ModelById(id) ==
    IF \E m \in db : m.id = id
    THEN << CHOOSE m \in db : m.id = id >>
    ELSE << >>

(***************************************************************************)
(* Responses.                                                              *)
(***************************************************************************)
NoResponse == [sent |-> FALSE, status |-> 0, body |-> [kind |-> "none"]]

EmptyBody == [kind |-> "empty"]
TextBody(s) == [kind |-> "text", text |-> s]
JsonBody(v) == [kind |-> "json", value |-> v]

\* res.status(code).end() / .send(text) / .json(value); res.json alone is 200
Response(code, body) == [sent |-> TRUE, status |-> code, body |-> body]

OkMessage(ok, message) == [shape |-> "ok_message", ok |-> ok, message |-> message]
BareList(items) == [shape |-> "list", items |-> items]
DataError(data, error) == [shape |-> "data_error", data |-> data, error |-> error]
ErrorObject(error) == [shape |-> "error", error |-> error]
Results(rs) == [shape |-> "results", results |-> rs]

(***************************************************************************)
(* Response shaper.                                                        *)
(***************************************************************************)
ResourceUrl(id, file) == "/getResource/models/" \o id \o "/" \o file

makeModelInfo(model) ==
    [id |-> model.id, name |-> model.name, category |-> model.category,
     userId |-> model.userId, modelFile |-> model.modelFile,
     thumbnail |-> model.thumbnail, modelUsdz |-> model.modelUsdz,
     modelSrc |-> ResourceUrl(model.id, model.modelFile),
     thumbnailSrc |-> IF Truthy(model.thumbnail)
                      THEN ResourceUrl(model.id, model.thumbnail[1]) ELSE "",
     usdzSrc |-> IF Truthy(model.modelUsdz)
                 THEN ResourceUrl(model.id, model.modelUsdz[1]) ELSE ""]

makeModelInfos(models) == { makeModelInfo(m) : m \in models }

(***************************************************************************)
(* Requests.                                                               *)
(***************************************************************************)
allowedMethod == { "GET", "POST", "DELETE" }

NoQuery ==
    [id |-> Undefined, uploader |-> Undefined, sort |-> Undefined,
     category |-> Undefined, filterByName |-> Undefined, orderBy |-> Undefined]

GetQueries ==
    [id : { Undefined, <<"">>, <<"1">>, <<"9">>, <<"2", "1">> },
     uploader : { Undefined, <<"u1">>, <<"u1", "u2">> },
     sort : { Undefined, <<"name">> },
     category : { Undefined, <<"">>, <<"misc">>, <<"bogus">> },
     filterByName : { Undefined, <<"">>, <<"b">>, <<"zzz">> },
     orderBy : { <<"asc">> }]

DeleteQueries ==
    { [NoQuery EXCEPT !.id = i] :
        i \in { Undefined, <<"">>, <<"1">>, <<"9">>, <<"2", "1">> } }

\* getSession: null, or a session whose user has an email or none
NoSession == [present |-> FALSE, email |-> Undefined]
Sessions ==
    { NoSession }
    \cup { [present |-> TRUE, email |-> e] :
             e \in { Undefined, <<"dev@x">>, <<"usr@x">>, <<"gone@x">> } }

\* multipart body: the `form` field and the `file` parts
\* file parts: two small files, and one a byte over 100 << 20
FileKinds ==
    { [name |-> "a.zip", size |-> 1], [name |-> "b.zip", size |-> 1],
      [name |-> "b.zip", size |-> (100 * 2^20) + 1] }
FormTexts == { Undefined, <<"">>, <<"{\"category\":\"CAR\"}">>, <<"{}">>, <<"{">> }
FileParts(n) == [1..n -> FileKinds]
Bodies ==
    [form : FormTexts, wellFormed : BOOLEAN,
     files : UNION { FileParts(n) : n \in 0..MaxFiles }]
NoBody == [form |-> Undefined, wellFormed |-> TRUE, files |-> << >>]

Requests ==
    { [method |-> "GET", query |-> q, session |-> s, body |-> NoBody] :
        q \in GetQueries, s \in { NoSession } }
    \cup { [method |-> "DELETE", query |-> q, session |-> s, body |-> NoBody] :
        q \in DeleteQueries, s \in Sessions }
    \cup { [method |-> "POST", query |-> NoQuery, session |-> s, body |-> b] :
        s \in Sessions, b \in Bodies }
    \cup { [method |-> "PUT", query |-> NoQuery, session |-> s, body |-> NoBody] :
        s \in Sessions }

NoRequest == [method |-> "", query |-> NoQuery, session |-> NoSession, body |-> NoBody]

(***************************************************************************)
(* Initial state: no request yet; the database holds any of the seed       *)
(* records, each with its storage objects.                                 *)
(***************************************************************************)
Init ==
    /\ pc = "idle"
    /\ req = NoRequest
    /\ res = NoResponse
    /\ calls = << >>
    /\ branch = "none"
    /\ db \in SUBSET SeedModels
    /\ s3 = { m.id : m \in db }
    /\ user = << >>
    /\ auth = "none"
    /\ parsed = [state |-> "none"]
    /\ draft = [built |-> FALSE]
    /\ tasks = << >>
    /\ settled = << >>
    /\ target = << >>
    /\ s3p = "none"
    /\ dbp = "none"

Receive ==
    /\ pc = "idle"
    /\ \E r \in Requests : req' = r
    /\ pc' = "start"
    /\ UNCHANGED << res, calls, branch, db, s3, user, auth, parsed, draft,
                    tasks, settled, target, s3p, dbp >>

\* lines 35-39: resolve the session once, reject verbs outside allowedMethod
Dispatch ==
    /\ pc = "start"
    /\ calls' = Append(calls, "getSession")
    /\ IF req.method \notin allowedMethod
       THEN /\ res' = Response(405, EmptyBody)
            /\ pc' = "done"
       ELSE /\ res' = res
            /\ pc' = req.method
    /\ UNCHANGED << req, branch, db, s3, user, auth, parsed, draft,
                    tasks, settled, target, s3p, dbp >>

(***************************************************************************)
(* Read path (GET), lines 40-133.                                          *)
(***************************************************************************)
\* variant of GetBranch: the uploader test comes before the id test
GetBranch_UploaderFirst(q) ==
    IF Truthy(q.uploader) THEN "byUploader"
    ELSE IF Truthy(q.id) THEN "byId"
    ELSE IF Truthy(q.sort) THEN "bySort"
    ELSE "default"

\* the if / else-if chain of lines 42, 52, 72 and the fall-through of line 127
GetBranch(q) ==
    IF Truthy(q.id) THEN "byId"
    ELSE IF Truthy(q.uploader) THEN "byUploader"
    ELSE IF Truthy(q.sort) THEN "bySort"
    ELSE "default"

\* a rejected prisma call outside any try: the handler's promise rejects and
\* the handler itself sends nothing
Crash ==
    /\ pc' = "crashed"
    /\ res' = res

\* lines 42-51
GetById ==
    /\ pc = "GET"
    /\ GetBranch(req.query) = "byId"
    /\ branch' = "byId"
    /\ calls' = Append(calls, "model.findUnique")
    /\ \E dbOk \in BOOLEAN :
         IF ~dbOk \/ Len(req.query.id) /= 1
         THEN Crash
         ELSE LET model == ModelById(req.query.id[1]) IN
              /\ pc' = "done"
              /\ res' = IF model = << >>
                        THEN Response(404, EmptyBody)
                        ELSE Response(200, JsonBody(BareList({ makeModelInfo(model[1]) })))
    /\ UNCHANGED << req, db, s3, user, auth, parsed, draft, tasks, settled, target, s3p, dbp >>

\* lines 52-71
GetByUploader ==
    /\ pc = "GET"
    /\ GetBranch(req.query) = "byUploader"
    /\ branch' = "byUploader"
    /\ calls' = Append(calls, "model.findMany(uploader)")
    /\ \E dbOk \in BOOLEAN :
         IF ~dbOk
         THEN Crash
         ELSE LET uploaders == { req.query.uploader[i] : i \in 1..Len(req.query.uploader) }
                  model == { m \in db : m.userId \in uploaders }
              IN  /\ pc' = "done"
                  /\ res' = Response(200, JsonBody(BareList(makeModelInfos(model))))
    /\ UNCHANGED << req, db, s3, user, auth, parsed, draft, tasks, settled, target, s3p, dbp >>

\* lines 75-94: the findMany options built from the query
SortOptions(q) ==
    [contains |-> IF q.filterByName = Undefined THEN Undefined
                  ELSE << ToStr(q.filterByName) >>,
     category |-> IF Truthy(q.category) /\ ToStr(q.category) \in Categories
                  THEN << ToUpperCase(ToStr(q.category)) >>
                  ELSE Undefined,
     sort |-> ToStr(q.sort),
     orderBy |-> q.orderBy]

\* prisma model.findMany(options) of line 96
FindManySorted(options) ==
    { m \in db :
        /\ options.contains /= Undefined => Contains(m.name, options.contains[1])
        /\ options.category /= Undefined => m.category = options.category[1] }

\* variant of NoMatchMessage: the name-only and category-only texts are swapped
NoMatchMessage_Swapped(q) ==
    IF Truthy(q.filterByName)
    THEN IF Truthy(q.category)
         THEN << "We couldn't find any matches for \"" \o ToStr(q.filterByName)
                 \o "\" " \o "in " \o ToStr(q.category) >>
         ELSE << "We couldn't find any matches in \"" \o ToStr(q.filterByName) \o "\"" >>
    ELSE IF Truthy(q.category)
         THEN << "We couldn't find any matches for \"" \o ToStr(q.category)
                 \o "\"" >>
         ELSE Undefined

\* lines 99-115: the "no matches" message, undefined when neither was given
NoMatchMessage(q) ==
    IF Truthy(q.filterByName)
    THEN IF Truthy(q.category)
         THEN << "We couldn't find any matches for \"" \o ToStr(q.filterByName)
                 \o "\" " \o "in " \o ToStr(q.category) >>
         ELSE << "We couldn't find any matches for \"" \o ToStr(q.filterByName)
                 \o "\"" >>
    ELSE IF Truthy(q.category)
         THEN << "We couldn't find any matches in \"" \o ToStr(q.category) \o "\"" >>
         ELSE Undefined

\* lines 98-125
SortResponse(q, modelList) ==
    IF modelList = { }
    THEN Response(404, JsonBody(DataError(modelList, NoMatchMessage(q))))
    ELSE Response(200, JsonBody(DataError(makeModelInfos(modelList), Undefined)))

\* lines 72-126
GetBySort ==
    /\ pc = "GET"
    /\ GetBranch(req.query) = "bySort"
    /\ branch' = "bySort"
    /\ calls' = Append(calls, "model.findMany(sort)")
    /\ \E dbOk \in BOOLEAN :
         IF ~dbOk
         THEN Crash
         ELSE /\ pc' = "done"
              /\ res' = SortResponse(req.query, FindManySorted(SortOptions(req.query)))
    /\ UNCHANGED << req, db, s3, user, auth, parsed, draft, tasks, settled, target, s3p, dbp >>

\* lines 127-133
GetDefault ==
    /\ pc = "GET"
    /\ GetBranch(req.query) = "default"
    /\ branch' = "default"
    /\ calls' = Append(calls, "model.findMany(all)")
    /\ \E dbOk \in BOOLEAN :
         IF ~dbOk
         THEN Crash
         ELSE /\ pc' = "done"
              /\ res' = Response(200, JsonBody(BareList(makeModelInfos(db))))
    /\ UNCHANGED << req, db, s3, user, auth, parsed, draft, tasks, settled, target, s3p, dbp >>

(***************************************************************************)
(* Write path (POST), lines 134-192.                                       *)
(***************************************************************************)
\* lines 165-168 and the default of lines 268-272; maxFileSize is read only
\* when the size is limited (Infinity otherwise)
FormidableOptions(u) ==
    IF u.role = "ADMIN" \/ u.role = "DEVELOPER"
    THEN [multiples |-> TRUE, limited |-> FALSE, maxFileSize |-> 0,
          keepExtensions |-> TRUE]
    ELSE [multiples |-> TRUE, limited |-> TRUE, maxFileSize |-> 100 * 2^20,
          keepExtensions |-> TRUE]

\* formidable's files.file: undefined, one File, or an array of Files
FilesField(files) ==
    IF Len(files) = 0 THEN [kind |-> "undefined", value |-> << >>]
    ELSE IF Len(files) = 1 THEN [kind |-> "single", value |-> files]
    ELSE [kind |-> "array", value |-> files]

\* lines 262-279: form.parse rejects a malformed body and a file over the limit
getFormidableFileFromReq(body, options) ==
    IF \/ ~body.wellFormed
       \/ options.limited /\ \E i \in 1..Len(body.files) :
                                 body.files[i].size > options.maxFileSize
    THEN [state |-> "failed"]
    ELSE [state |-> "ok", form |-> body.form, file |-> FilesField(body.files)]

\* variant of ParseFailureResponse: the failure is reported with an error status
ParseFailureResponse_400 ==
    Response(400, JsonBody(OkMessage(FALSE,
        "Failed to parse your request. Check your model size.")))

\* lines 173-176
ParseFailureResponse ==
    Response(200, JsonBody(OkMessage(FALSE,
        "Failed to parse your request. Check your model size.")))

\* JSON.parse on the form texts of the model: the parsed UploadForm, or a throw
JSONParse(text) ==
    IF text = "{\"category\":\"CAR\"}"
    THEN [threw |-> FALSE, value |-> [category |-> <<"CAR">>]]
    ELSE IF text = "{}"
    THEN [threw |-> FALSE, value |-> [category |-> Undefined]]
    ELSE [threw |-> TRUE]

\* updateModel(model, getModelFromForm(form)): the form's fields laid on the draft
updateModel(model, form) ==
    IF form.category /= Undefined
    THEN [model EXCEPT !.category = form.category]
    ELSE model

\* lines 179-187, given that JSON.parse did not throw
BuildDraft(u, form) ==
    LET model == [built |-> TRUE, userId |-> u.id, category |-> Undefined] IN
    IF Truthy(form)
    THEN updateModel(model, JSONParse(form[1]).value)
    ELSE [model EXCEPT !.category = <<"MISC">>]

makeMaybeArrayToArray(maybe) ==
    IF maybe.kind = "undefined" THEN << >> ELSE maybe.value

\* variant of HandlePostArgs: every call is handed the first file
HandlePostArgs_FirstFile(files, model) ==
    [i \in 1..Len(files) |-> [file |-> files[1], model |-> model]]

\* line 190: the arguments of the handlePOST call made for each file
HandlePostArgs(files, model) ==
    [i \in 1..Len(files) |-> [file |-> files[i], model |-> model]]

\* a handlePOST promise that has just been created
NewTask(arg) ==
    [stage |-> "pending", arg |-> arg, id |-> Undefined, reason |-> ""]

IsSettled(t) == t.stage \in { "fulfilled", "rejected" }

\* variant of AllSettledResults: the entries are in the order of completion
AllSettledResults_CompletionOrder(ts) ==
    [k \in 1..Len(settled) |->
        IF ts[settled[k]].stage = "fulfilled"
        THEN [status |-> "fulfilled", value |-> ts[settled[k]].id]
        ELSE [status |-> "rejected", reason |-> <<ts[settled[k]].reason>>]]

\* Promise.allSettled of line 189: one entry per promise, in the promises' order
AllSettledResults(ts) ==
    [i \in 1..Len(ts) |->
        IF ts[i].stage = "fulfilled"
        THEN [status |-> "fulfilled", value |-> ts[i].id]
        ELSE [status |-> "rejected", reason |-> <<ts[i].reason>>]]

\* Promise.allSettled resolves once every promise has settled
AllSettledReady(ts) == \A i \in 1..Len(ts) : IsSettled(ts[i])

\* line 161; the message is the source's Korean text ("login is required")
\* in ASCII
CreateDeniedResponse == Response(403, JsonBody(OkMessage(FALSE, "login is required")))

\* variant of isLogined: the login check is skipped
isLogined_Always(session) == TRUE

\* line 136
isLogined(session) == session.present

\* lines 136-163
PostAuth ==
    /\ pc = "POST"
    /\ IF ~isLogined(req.session)
       THEN /\ res' = Response(401, TextBody("Login first"))
            /\ pc' = "done"
            /\ UNCHANGED << calls, user, auth >>
       ELSE \E dbOk \in BOOLEAN, allow \in BOOLEAN :
            LET found == UserByEmail(req.session.email) IN
            IF ~dbOk
            THEN /\ Crash
                 /\ calls' = Append(calls, "user.findUnique")
                 /\ UNCHANGED << user, auth >>
            ELSE IF found = << >>
            THEN /\ res' = Response(401, EmptyBody)
                 /\ pc' = "done"
                 /\ calls' = Append(calls, "user.findUnique")
                 /\ user' = found
                 /\ auth' = auth
            ELSE /\ calls' = calls \o << "user.findUnique", "hasRight" >>
                 /\ user' = found
                 /\ IF allow
                    THEN /\ auth' = "allow"
                         /\ pc' = "post_parse"
                         /\ res' = res
                    ELSE /\ auth' = "deny"
                         /\ pc' = "done"
                         /\ res' = CreateDeniedResponse
    /\ UNCHANGED << req, branch, db, s3, parsed, draft, tasks, settled, target, s3p, dbp >>

\* lines 165-178
PostParse ==
    /\ pc = "post_parse"
    /\ calls' = Append(calls, "formidable.parse")
    /\ LET formidable == getFormidableFileFromReq(req.body, FormidableOptions(user[1])) IN
       /\ parsed' = formidable
       /\ IF formidable.state = "failed"
          THEN /\ res' = ParseFailureResponse
               /\ pc' = "done"
          ELSE /\ res' = res
               /\ pc' = "post_build"
    /\ UNCHANGED << req, branch, db, s3, user, auth, draft, tasks, settled, target, s3p, dbp >>

\* lines 179-187
PostBuildDraft ==
    /\ pc = "post_build"
    /\ IF Truthy(parsed.form) /\ JSONParse(parsed.form[1]).threw
       THEN /\ Crash
            /\ draft' = draft
       ELSE /\ draft' = BuildDraft(user[1], parsed.form)
            /\ pc' = "post_fanout"
            /\ res' = res
    /\ UNCHANGED << req, calls, branch, db, s3, user, auth, parsed, tasks, settled,
                    target, s3p, dbp >>

\* lines 188-191 up to the await: every handlePOST is called in file order;
\* a call that throws synchronously ends the map with the earlier promises
\* left running
PostFanOut ==
    /\ pc = "post_fanout"
    /\ LET files == makeMaybeArrayToArray(parsed.file)
           args == HandlePostArgs(files, draft)
       IN  \E threw \in 0..Len(files) :
             LET started == IF threw = 0 THEN Len(files) ELSE threw - 1
                 called == IF threw = 0 THEN Len(files) ELSE threw
             IN  /\ tasks' = [i \in 1..started |-> NewTask(args[i])]
                 /\ calls' = calls \o [i \in 1..called |-> "handlePOST"]
                 /\ IF threw = 0
                    THEN pc' = "post_await" /\ res' = res
                    ELSE Crash
    /\ UNCHANGED << req, branch, db, s3, user, auth, parsed, draft, settled, target, s3p, dbp >>

\* storage and record ids already taken
UsedIds ==
    { m.id : m \in db } \cup s3
    \cup { tasks[i].id[1] : i \in { k \in 1..Len(tasks) : tasks[k].id /= Undefined } }

\* the Model record an upload creates from the draft it was given and its file
NewRecord(arg, id) ==
    [id |-> id, name |-> arg.file.name,
     category |-> IF arg.model.category = Undefined THEN "MISC"
                  ELSE arg.model.category[1],
     userId |-> arg.model.userId, modelFile |-> arg.file.name,
     thumbnail |-> Undefined, modelUsdz |-> Undefined]

\* handlePOST, first step: store the file as an object of its own
TaskStore(i) ==
    /\ i \in 1..Len(tasks)
    /\ tasks[i].stage = "pending"
    /\ \/ \E id \in NewIds \ UsedIds :
            /\ tasks' = [tasks EXCEPT ![i].stage = "stored", ![i].id = <<id>>]
            /\ s3' = s3 \cup { id }
            /\ settled' = settled
       \/ /\ tasks' = [tasks EXCEPT ![i].stage = "rejected", ![i].reason = "storage"]
          /\ settled' = Append(settled, i)
          /\ s3' = s3
    /\ UNCHANGED << pc, req, res, calls, branch, db, user, auth, parsed, draft,
                    target, s3p, dbp >>

\* handlePOST, second step: record the metadata; no rollback of the stored file
TaskRecord(i) ==
    /\ i \in 1..Len(tasks)
    /\ tasks[i].stage = "stored"
    /\ \/ /\ tasks' = [tasks EXCEPT ![i].stage = "fulfilled"]
          /\ db' = db \cup { NewRecord(tasks[i].arg, tasks[i].id[1]) }
       \/ /\ tasks' = [tasks EXCEPT ![i].stage = "rejected", ![i].reason = "database"]
          /\ db' = db
    /\ settled' = Append(settled, i)
    /\ UNCHANGED << pc, req, res, calls, branch, s3, user, auth, parsed, draft,
                    target, s3p, dbp >>

\* the await of line 189 and line 192
PostRespond ==
    /\ pc = "post_await"
    /\ AllSettledReady(tasks)
    /\ res' = Response(200, JsonBody(Results(AllSettledResults(tasks))))
    /\ pc' = "done"
    /\ UNCHANGED << req, calls, branch, db, s3, user, auth, parsed, draft, tasks,
                    settled, target, s3p, dbp >>

(***************************************************************************)
(* Delete path (DELETE), lines 193-237.                                    *)
(***************************************************************************)
\* lines 199-201: the array form takes its first element
DeleteModelId(q) ==
    IF q.id = Undefined THEN Undefined ELSE << q.id[1] >>

\* line 231 and line 234
DeleteSuccessResponse == Response(200, JsonBody(OkMessage(TRUE, "delete success!")))
DeleteFailureResponse == Response(500, JsonBody(OkMessage(FALSE, "Failed while deleting.")))

\* the response of the try / catch of lines 224-236, by how the awaited
\* model.delete promise settled
DeleteOutcomeResponse(dbSettled) ==
    IF dbSettled = "resolved" THEN DeleteSuccessResponse ELSE DeleteFailureResponse

\* variant of AfterDeleteGate: the return after the 403 is missing
AfterDeleteGate_NoReturn(allow) == "delete_try"

\* lines 211-223: a denied request returns after its 403
AfterDeleteGate(allow) == IF allow THEN "delete_try" ELSE "done"

\* lines 194-223
DeleteAuth ==
    /\ pc = "DELETE"
    /\ \E userOk \in BOOLEAN, modelOk \in BOOLEAN, allow \in BOOLEAN :
         LET modelId == DeleteModelId(req.query) IN
         IF ~userOk
         THEN /\ Crash
              /\ calls' = Append(calls, "user.findUnique")
              /\ UNCHANGED << user, auth, target >>
         ELSE IF ~Truthy(modelId)
         THEN /\ res' = Response(400, JsonBody(ErrorObject("model id query not found")))
              /\ pc' = "done"
              /\ calls' = Append(calls, "user.findUnique")
              /\ user' = UserByEmail(req.session.email)
              /\ UNCHANGED << auth, target >>
         ELSE IF ~modelOk
         THEN /\ Crash
              /\ calls' = calls \o << "user.findUnique", "model.findUnique" >>
              /\ user' = UserByEmail(req.session.email)
              /\ UNCHANGED << auth, target >>
         ELSE /\ calls' = calls \o << "user.findUnique", "model.findUnique", "hasRight" >>
              /\ user' = UserByEmail(req.session.email)
              /\ target' = ModelById(modelId[1])
              /\ auth' = IF allow THEN "allow" ELSE "deny"
              /\ pc' = AfterDeleteGate(allow)
              /\ res' = IF allow THEN res ELSE Response(403, EmptyBody)
    /\ UNCHANGED << req, branch, db, s3, parsed, draft, tasks, settled, s3p, dbp >>

\* variant of DeleteCalls: the record delete is called before the storage delete
DeleteCalls_Swapped == << "model.delete", "deleteS3Files" >>

\* lines 225-226: the storage delete is called before the record delete
DeleteCalls == << "deleteS3Files", "model.delete" >>

\* lines 224-226 up to the await: deleteS3Files is called and its promise
\* dropped, then model.delete is called; a synchronous throw of deleteS3Files
\* goes to the catch of line 233
DeleteInvoke ==
    /\ pc = "delete_try"
    /\ \E threw \in BOOLEAN :
         IF threw
         THEN /\ calls' = Append(calls, "deleteS3Files")
              /\ s3p' = "threw"
              /\ dbp' = dbp
              /\ res' = DeleteFailureResponse
              /\ pc' = "done"
         ELSE /\ calls' = calls \o DeleteCalls
              /\ s3p' = "pending"
              /\ dbp' = "pending"
              /\ res' = res
              /\ pc' = "delete_await"
    /\ UNCHANGED << req, branch, db, s3, user, auth, parsed, draft, tasks, settled,
                    target >>

\* the dropped deleteS3Files promise settles on its own, whenever it does
S3Settle ==
    /\ s3p = "pending"
    /\ \/ /\ s3p' = "resolved"
          /\ s3' = s3 \ { DeleteModelId(req.query)[1] }
       \/ /\ s3p' = "rejected"
          /\ s3' = s3
    /\ UNCHANGED << pc, req, res, calls, branch, db, user, auth, parsed, draft,
                    tasks, settled, target, dbp >>

\* prisma model.delete settles: it rejects when the record is not there, and
\* may reject for a reason of the database's own
DbDeleteSettle ==
    /\ dbp = "pending"
    /\ LET record == ModelById(DeleteModelId(req.query)[1]) IN
       \/ /\ record /= << >>
          /\ dbp' = "resolved"
          /\ db' = db \ { record[1] }
       \/ /\ dbp' = "rejected"
          /\ db' = db
    /\ UNCHANGED << pc, req, res, calls, branch, s3, user, auth, parsed, draft,
                    tasks, settled, target, s3p >>

\* lines 226-236 after the await
DeleteRespond ==
    /\ pc = "delete_await"
    /\ dbp \in { "resolved", "rejected" }
    /\ res' = DeleteOutcomeResponse(dbp)
    /\ pc' = "done"
    /\ UNCHANGED << req, calls, branch, db, s3, user, auth, parsed, draft, tasks,
                    settled, target, s3p, dbp >>

Next ==
    \/ Receive
    \/ Dispatch
    \/ GetById
    \/ GetByUploader
    \/ GetBySort
    \/ GetDefault
    \/ PostAuth
    \/ PostParse
    \/ PostBuildDraft
    \/ PostFanOut
    \/ \E i \in 1..MaxFiles : TaskStore(i)
    \/ \E i \in 1..MaxFiles : TaskRecord(i)
    \/ PostRespond
    \/ DeleteAuth
    \/ DeleteInvoke
    \/ S3Settle
    \/ DbDeleteSettle
    \/ DeleteRespond

Spec == Init /\ [][Next]_vars

(***************************************************************************)
(* Properties of the handler.                                              *)
(***************************************************************************)
Called(name) == \E i \in 1..Len(calls) : calls[i] = name

JsonShape(shape) ==
    /\ res.sent
    /\ res.body.kind = "json"
    /\ res.body.value.shape = shape

Ended == pc \in { "done", "crashed" }

\* C1: a POST whose session is absent is answered 401 "Login first", and the
\* request calls nothing but the session resolver: no database call, no
\* multipart parsing, no handlePOST, no draft, no write.
C1_UnauthenticatedPost ==
    (req.method = "POST" /\ ~req.session.present) =>
        /\ \A i \in 1..Len(calls) : calls[i] = "getSession"
        /\ parsed.state = "none" /\ ~draft.built /\ tasks = << >>
        /\ db \subseteq SeedModels /\ s3 = { m.id : m \in db }
        /\ pc \in { "start", "POST", "done" }
        /\ pc = "done" => res = Response(401, TextBody("Login first"))
        /\ pc /= "done" => ~res.sent

C1_Witness ==
    /\ req.method = "POST" /\ ~req.session.present
    /\ Len(req.body.files) = 2 /\ req.body.wellFormed
    /\ pc = "done" /\ res.status = 401

\* C2: a DELETE with a model id that the authorization gate denies is
\* answered 403 with an empty body, and neither deleteS3Files nor
\* model.delete is ever invoked on that request.
C2_DeniedDelete ==
    (req.method = "DELETE" /\ auth = "deny") =>
        /\ pc = "done"
        /\ res = Response(403, EmptyBody)
        /\ ~Called("deleteS3Files") /\ ~Called("model.delete")
        /\ s3p = "none" /\ dbp = "none"
        /\ db \subseteq SeedModels /\ s3 = { m.id : m \in db }

C2_Witness ==
    /\ req.method = "DELETE" /\ auth = "deny"
    /\ target /= << >> /\ user /= << >>
    /\ pc = "done" /\ res.status = 403

\* the calls of an authorized DELETE up to and including the two deletions
DeleteCallsBoth ==
    << "getSession", "user.findUnique", "model.findUnique", "hasRight",
       "deleteS3Files", "model.delete" >>

\* C3 as stated: every authorized DELETE of an existing record invokes the
\* storage delete, then the record delete, and is answered 200 {ok:true}.
C3_AsStated ==
    (/\ req.method = "DELETE" /\ auth = "allow" /\ pc = "done"
     /\ user /= << >> /\ target /= << >> /\ s3p /= "threw") =>
        /\ calls = DeleteCallsBoth
        /\ res = Response(200, JsonBody(OkMessage(TRUE, "delete success!")))

\* C3 amended: on an authorized DELETE the storage delete is invoked first
\* and not awaited, then (unless that call threw synchronously) the record
\* delete; the answer is 200 {ok:true, message} when the record delete
\* succeeds and 500 {ok:false, message} otherwise.
C3_DeleteOrder ==
    (req.method = "DELETE" /\ auth = "allow" /\ pc \in { "delete_await", "done" }) =>
        /\ IF s3p = "threw"
           THEN calls = SubSeq(DeleteCallsBoth, 1, 5) /\ dbp = "none"
           ELSE calls = DeleteCallsBoth /\ s3p /= "none" /\ dbp /= "none"
        /\ pc = "delete_await" => ~res.sent
        /\ pc = "done" =>
             IF s3p /= "threw" /\ dbp = "resolved"
             THEN res = Response(200, JsonBody(OkMessage(TRUE, "delete success!")))
             ELSE res = Response(500, JsonBody(OkMessage(FALSE, "Failed while deleting.")))

\* the response is out while the dropped storage delete is still running
C3_Witness ==
    /\ req.method = "DELETE" /\ auth = "allow" /\ target /= << >>
    /\ pc = "done" /\ res.status = 200
    /\ s3p = "pending" /\ dbp = "resolved"

\* C4: on an authorized DELETE a failure of either deletion, the storage
\* one or the database one, ends the request with 500 {ok:false, message},
\* never with 200 {ok:true} and never without a response.
C4_AnyDeleteFailureIs500 ==
    (/\ req.method = "DELETE" /\ auth = "allow" /\ pc = "done"
     /\ user /= << >> /\ target /= << >>
     /\ (s3p \in { "threw", "rejected" } \/ dbp = "rejected")) =>
        res = Response(500, JsonBody(OkMessage(FALSE, "Failed while deleting.")))

\* C5: an authorized POST whose multipart parsing succeeded ends with
\* 200 {results}, whatever the form field holds and however many files fail.
C5_ParsedPostAlwaysResults ==
    (req.method = "POST" /\ parsed.state = "ok" /\ Ended) =>
        /\ pc = "done"
        /\ res.status = 200
        /\ JsonShape("results")

\* the settled outcome of the i-th handlePOST promise
Outcome(i) ==
    IF tasks[i].stage = "fulfilled"
    THEN [status |-> "fulfilled", value |-> tasks[i].id]
    ELSE [status |-> "rejected", reason |-> <<tasks[i].reason>>]

\* C6: the POST response with `results` is sent only once every file's
\* processing has settled, and results has one entry per submitted file,
\* entry i being the outcome of file i whatever the order of completion.
C6_ResultsInFileOrder ==
    /\ (req.method = "POST" /\ JsonShape("results")) =>
         /\ Len(tasks) = Len(req.body.files)
         /\ \A i \in 1..Len(tasks) : tasks[i].stage \in { "fulfilled", "rejected" }
         /\ Len(settled) = Len(tasks)
         /\ Len(res.body.value.results) = Len(req.body.files)
         /\ \A i \in 1..Len(res.body.value.results) :
              /\ tasks[i].arg.file = req.body.files[i]
              /\ res.body.value.results[i] = Outcome(i)
    /\ (req.method = "POST" /\ pc = "post_await") => ~res.sent

\* two files, the second settled first, one fulfilled and one rejected
C6_Witness ==
    /\ req.method = "POST" /\ JsonShape("results")
    /\ settled = << 2, 1 >>
    /\ tasks[1].stage = "rejected" /\ tasks[2].stage = "fulfilled"

\* the record an upload of file i of this request creates under id
RecordOf(i, id) ==
    [id |-> id, name |-> req.body.files[i].name,
     category |-> IF draft.category = << >> THEN "MISC" ELSE draft.category[1],
     userId |-> user[1].id, modelFile |-> req.body.files[i].name,
     thumbnail |-> << >>, modelUsdz |-> << >>]

OverLimit ==
    /\ user /= << >>
    /\ user[1].role \notin { "ADMIN", "DEVELOPER" }
    /\ \E i \in 1..Len(req.body.files) : req.body.files[i].size > 104857600

\* C8: an authorized POST whose multipart parsing fails, a size-limit
\* violation included, is answered 200 {ok:false, message}; no draft is
\* built and no file is processed.
C8_ParseFailure ==
    /\ (req.method = "POST" /\ parsed.state = "failed") =>
         /\ pc = "done"
         /\ res = Response(200, JsonBody(OkMessage(FALSE,
                     "Failed to parse your request. Check your model size.")))
         /\ ~draft.built /\ tasks = << >> /\ ~Called("handlePOST")
         /\ db \subseteq SeedModels /\ s3 = { m.id : m \in db }
    /\ (req.method = "POST" /\ auth = "allow" /\ pc /= "post_parse"
        /\ (OverLimit \/ ~req.body.wellFormed)) => parsed.state = "failed"

\* a well-formed upload rejected for its size alone
C8_Witness ==
    /\ req.method = "POST" /\ parsed.state = "failed"
    /\ req.body.wellFormed /\ OverLimit
    /\ pc = "done" /\ res.status = 200

Present(v) == v /= << >>
NonEmpty(v) == v /= << >> /\ v /= <<"">>

\* the database query each read branch issues
BranchQuery(b) ==
    CASE b = "byId" -> "model.findUnique"
      [] b = "byUploader" -> "model.findMany(uploader)"
      [] b = "bySort" -> "model.findMany(sort)"
      [] b = "default" -> "model.findMany(all)"

SortMatches ==
    { m \in db :
        /\ Present(req.query.filterByName) =>
             \E i \in 1..Len(m.name)+1 : \E j \in (i-1)..Len(m.name) :
                 SubSeq(m.name, i, j) = Join(req.query.filterByName)
        /\ req.query.category = <<"misc">> => m.category = "MISC" }

\* C10 as stated: on the by-sort branch an empty result is a 404 whose
\* message is chosen by whether filterByName and category were supplied.
C10_AsStated ==
    (req.method = "GET" /\ branch = "bySort" /\ pc = "done"
     /\ res.body.value.data = { }) =>
        LET f == req.query.filterByName
            c == req.query.category
        IN  /\ res.status = 404
            /\ res.body.value.error =
                 (IF Present(f) /\ Present(c)
                  THEN << "We couldn't find any matches for \"" \o Join(f) \o "\" in "
                          \o Join(c) >>
                  ELSE IF Present(f)
                  THEN << "We couldn't find any matches for \"" \o Join(f) \o "\"" >>
                  ELSE IF Present(c)
                  THEN << "We couldn't find any matches in \"" \o Join(c) \o "\"" >>
                  ELSE << >>)

\* C10 amended: on the by-sort branch an empty result is a 404 whose
\* message is chosen by whether filterByName and category were supplied
\* with a non-empty value (both, name only, category only, neither: no
\* message); a non-empty result is a 200 with the shaped list and no message.
C10_SortResponse ==
    (req.method = "GET" /\ branch = "bySort" /\ pc = "done") =>
        LET f == req.query.filterByName
            c == req.query.category
        IN  /\ JsonShape("data_error")
            /\ IF SortMatches = { }
               THEN /\ res.status = 404
                    /\ res.body.value.data = { }
                    /\ res.body.value.error =
                         (IF NonEmpty(f) /\ NonEmpty(c)
                          THEN << "We couldn't find any matches for \"" \o Join(f)
                                  \o "\" in " \o Join(c) >>
                          ELSE IF NonEmpty(f)
                          THEN << "We couldn't find any matches for \"" \o Join(f) \o "\"" >>
                          ELSE IF NonEmpty(c)
                          THEN << "We couldn't find any matches in \"" \o Join(c) \o "\"" >>
                          ELSE << >>)
               ELSE /\ res.status = 200
                    /\ res.body.value.data = { makeModelInfo(m) : m \in SortMatches }
                    /\ res.body.value.error = << >>

\* sort=name, filterByName=zzz, no category, nothing matches
C10_Witness ==
    /\ req.method = "GET" /\ branch = "bySort" /\ pc = "done"
    /\ db /= { }
    /\ req.query.filterByName = <<"zzz">> /\ req.query.category = << >>
    /\ res.status = 404
    /\ res.body.value.error = << "We couldn't find any matches for \"zzz\"" >>
====
